---- MODULE Spec2Model ----
(***************************************************************************)
(* Model of the reactor crate (reactor/src/lib.rs): the Reactor facade,    *)
(* its Controllers, the control and shutdown channels and the Runtime      *)
(* event loop with its resource registry and IoManager.                    *)
(***************************************************************************)
EXTENDS Integers, Sequences, FiniteSets, TLC

\* ------------------------------------------------------------------ bounds
MaxEvents == 2          \* control events enqueued on the live channel
MaxTcpCalls == 2        \* readiness handler calls made on one TcpSocket
MaxRead == 2            \* most bytes one read of the stream returns

\* resource ids (R::Id) and the Controllers handed out by Reactor::controller
Ids == {"a", "b"}
Controllers == {"c1"}
\* the threads holding a sender of the control channel
Senders == {"reactor"} \cup Controllers
\* a constructed resource is identified by the raw handle it owns; at most
\* one resource is constructed per Connect event
Handles == 1..MaxEvents

VARIABLES
    pc,             \* position of the Runtime thread in Runtime::run
    resources,      \* Runtime.resources: id -> resource (0 when absent)
    io,             \* IoManager: the monitored <<handle, id>> pairs
    ready,          \* IoManager iterator: readiness events not yet yielded
    control,        \* the unbounded control channel, oldest message first
    shutdown,       \* messages in the bounded(1) shutdown channel
    reactor,        \* the Reactor facade: "alive", "joining", "done", "dropped"
    controllers,    \* Controller c: "none", "alive", "dropped"
    sent,           \* number of control events enqueued so far
    handled,        \* per id, number of handle_cmd invocations
    sentCmd,        \* per id, number of Send events enqueued
    last,           \* what the last Runtime step did
    apiErr,         \* the last ReactorApi call that returned an error
    iterCtl,        \* a control event was processed in this loop iteration
    iterIo,         \* io_ready was called in this loop iteration
    shutdownSeen,   \* the Runtime has received the shutdown signal
    shutdownRes,    \* result of Reactor::shutdown: "none" until it returns
    timeouts,       \* Runtime.timeouts: the deadlines the TimeoutManager holds
    tcp             \* a TcpSocket resource and the events vector handed to it

vars == <<pc, resources, io, ready, control, shutdown, reactor, controllers,
          sent, handled, sentCmd, last, apiErr, iterCtl, iterIo, shutdownSeen,
          shutdownRes, timeouts, tcp>>

\* The state of the reactor proper, which the TcpSocket handlers never touch.
reactorVars == <<pc, resources, io, ready, control, shutdown, reactor,
                 controllers, sent, handled, sentCmd, last, apiErr, iterCtl,
                 iterIo, shutdownSeen, shutdownRes, timeouts>>

\* ------------------------------------------------------------- Runtime::run
\* The phases of one loop iteration, in the order run() goes through them.
PhaseOrderSwapped == <<"poll", "control", "io", "shutdown">>
PhaseOrder == <<"poll", "io", "control", "shutdown">>

PhaseIndex(p) == CHOOSE k \in 1..Len(PhaseOrder) : PhaseOrder[k] = p
NextPhase(p) == PhaseOrder[(PhaseIndex(p) % Len(PhaseOrder)) + 1]

\* The Runtime value exists (and with it both receivers) until the thread
\* unwinds from a panic; run() itself never returns.
RuntimeAlive == pc # "panicked"

\* What one step of the Runtime did: the control event taken (kind, id,
\* sender, send number n), whether the registry had the id (found), and the
\* numbers of calls made to the IoManager / Resource operation of the step
\* (called), to Resource::handle_err (reserr) and to Broker::handle_err.
\* res is what that operation returned and herr what Resource::handle_err
\* returned ("none" when not called); herrArg and brokerArg name the call
\* whose error value was handed to Resource::handle_err and to the Broker.
\* For a Connect step, pre is the registry and the monitored set as the
\* step found them.
NoPre == [resources |-> [i \in Ids |-> 0], io |-> {}]
NoStep == [kind |-> "none", id |-> "", sender |-> "", n |-> 0,
           found |-> FALSE, called |-> 0, reserr |-> 0, broker |-> 0,
           res |-> "none", herr |-> "none", herrArg |-> "none",
           brokerArg |-> "none", pre |-> NoPre]
Step(k, i, f, c, r, b) == [NoStep EXCEPT !.kind = k, !.id = i, !.found = f,
                           !.called = c, !.reserr = r, !.broker = b]
CtlStep(ev, f, c, r, b) == [Step(ev.kind, ev.id, f, c, r, b) EXCEPT
                               !.sender = ev.sender, !.n = ev.n]
Result(ok) == IF ok THEN "Ok" ELSE "Err"
NoErr == [sender |-> "", kind |-> "none", after |-> FALSE]

\* `call().or_else(|err| res.handle_err(err)).unwrap_or_else(|err|
\* broker.handle_err(err))`: the numbers of Resource::handle_err and
\* Broker::handle_err calls for a call returning callOk, handle_err herrOk.
ErrRouteAlwaysBroker(callOk, herrOk) ==
    [reserr |-> IF callOk THEN 0 ELSE 1,
     broker |-> 1,
     herrArg |-> IF callOk THEN "none" ELSE "call",
     brokerArg |-> IF callOk THEN "call" ELSE "handle_err"]
ErrRoute(callOk, herrOk) ==
    [reserr |-> IF callOk THEN 0 ELSE 1,
     broker |-> IF callOk \/ herrOk THEN 0 ELSE 1,
     herrArg |-> IF callOk THEN "none" ELSE "call",
     brokerArg |-> IF callOk \/ herrOk THEN "none" ELSE "handle_err"]

\* The record of a step whose operation returned callOk and whose error, if
\* any, took the route `route`; herrOk is what Resource::handle_err returned.
Routed(step, callOk, herrOk, route) ==
    [step EXCEPT !.res = Result(callOk),
                 !.herr = IF route.reserr = 0 THEN "none" ELSE Result(herrOk),
                 !.herrArg = route.herrArg, !.brokerArg = route.brokerArg]
\* The record of a step whose error goes straight to Broker::handle_err.
DirectSwallowed(step, callOk) ==
    [step EXCEPT !.res = Result(callOk), !.broker = 0, !.brokerArg = "none"]
Direct(step, callOk) ==
    [step EXCEPT !.res = Result(callOk),
                 !.brokerArg = IF callOk THEN "none" ELSE "call"]

\* ---------------------------------------------------------------- channels
\* chan::Sender::send on the control channel: fails once the receiver is gone.
ChanSendAlways(q, m) == [ok |-> TRUE, q |-> Append(q, m)]
ChanSend(q, m) ==
    IF RuntimeAlive THEN [ok |-> TRUE, q |-> Append(q, m)]
    ELSE [ok |-> FALSE, q |-> q]

\* The sending ends of the control channel that exist: the Reactor facade's
\* `control` until the facade is dropped or consumed by shutdown(), one per
\* live Controller, and the Runtime's own control_send.
ControlSendersWithoutRuntime ==
    (IF reactor \in {"alive", "joining"} THEN 1 ELSE 0)
    + Cardinality({c \in Controllers : controllers[c] = "alive"})
ControlSenders ==
    (IF reactor \in {"alive", "joining"} THEN 1 ELSE 0)
    + Cardinality({c \in Controllers : controllers[c] = "alive"})
    + (IF RuntimeAlive THEN 1 ELSE 0)

\* chan::Receiver::try_recv: a message if one is queued, else Disconnected
\* when every sender is gone, else Empty.
TryRecv(q, senders) ==
    IF q # <<>> THEN "Ok"
    ELSE IF senders = 0 THEN "Disconnected" ELSE "Empty"

\* chan::Receiver::try_recv takes the oldest message of the channel.
RecvIndexNewest(q) == Len(q)
RecvIndex(q) == 1

Without(q, k) == [j \in 1..(Len(q) - 1) |-> IF j < k THEN q[j] ELSE q[j + 1]]

Monitored(i) == {p \in io : p[2] = i}

\* HashMap::insert(id, resource): the entry of id becomes the given resource,
\* whatever the map held for id before.
InsertIfAbsent(reg, i, h) == IF reg[i] # 0 THEN reg ELSE [reg EXCEPT ![i] = h]
Insert(reg, i, h) == [reg EXCEPT ![i] = h]

\* The handle of a newly constructed resource: a number that no live
\* resource owns and the IoManager does not monitor.
InUse == {resources[i] : i \in Ids} \cup {p[1] : p \in io}
FreshHandle == CHOOSE h \in Handles : h \notin InUse /\ \A g \in Handles : g < h => g \in InUse

\* --------------------------------------------- resources/tcp.rs: TcpSocket
\* Size of the read buffer: u16::MAX.
READ_BUFFER_SIZE == 65535
Bytes == {0, 1}

\* io::Result values: what stream.read, stream.flush, stream.shutdown and
\* listener.accept can return. A read returns Ok(n) with the n bytes it put
\* at the front of the buffer, or an error of some kind.
ReadData == UNION {[1..n -> Bytes] : n \in 0..MaxRead}
ReadErrKinds == {"WouldBlock", "ConnectionReset", "TimedOut"}
ReadResults ==
    [ok : {TRUE}, data : ReadData, err : {"none"}] \cup
    [ok : {FALSE}, data : {<<>>}, err : ReadErrKinds]
FlushResults == {"Ok", "BrokenPipe", "TimedOut"}
ShutdownResults == {"Ok", "NotConnected"}
AcceptResults == {"Ok", "WouldBlock"}

\* The external results one handler call meets: of read, flush, shutdown and
\* peer_addr on the stream, of accept on the listener and of set_nonblocking
\* and local_addr on the accepted connection.
NoIn == [read |-> [ok |-> TRUE, data |-> <<>>, err |-> "none"],
         flush |-> "Ok", shutdown |-> "Ok", addr |-> TRUE,
         accept |-> "Ok", nonblock |-> TRUE, local |-> TRUE]

\* InputEvent values pushed to the events vector. A payload is the bytes read
\* followed by pad zero bytes.
NoEvent == [type |-> "none", data |-> <<>>, pad |-> 0, reason |-> "none",
            err |-> "none", direction |-> "none"]
Received(buffer) ==
    [NoEvent EXCEPT !.type = "Received", !.data = buffer.data,
                    !.pad = buffer.pad]
Disconnected(err) ==
    [NoEvent EXCEPT !.type = "Disconnected", !.reason = "ConnectionError",
                    !.err = err]
Connected ==
    [NoEvent EXCEPT !.type = "Connected", !.direction = "Inbound"]
PayloadLen(e) == Len(e.data) + e.pad

\* A handler's return value: Ok(n), Err(err), or "panic" when it unwound.
NoRet == [res |-> "none", n |-> 0, err |-> "none"]
Ok(n) == [res |-> "Ok", n |-> n, err |-> "none"]
Err(e) == [res |-> "Err", n |-> 0, err |-> e]
Unwind == [res |-> "panic", n |-> 0, err |-> "none"]

\* A TcpSocket (Listener or Stream) together with the events vector its
\* handlers are given, the last handler called (op), what that call met (in)
\* and what it returned (ret).
NewSocket(k) == [kind |-> k, state |-> "open", events |-> <<>>, calls |-> 0,
                 op |-> "none", in |-> NoIn, ret |-> NoRet]

\* `let mut buffer = [0; READ_BUFFER_SIZE]; stream.read(&mut buffer)`: the
\* buffer after a read that returned data.
ReadInto(data) == [data |-> data, pad |-> READ_BUFFER_SIZE - Len(data)]

\* TcpSocket::disconnect: nothing on a listener, shutdown(Both)? on a stream.
TcpDisconnect(sock, in) ==
    IF sock.kind = "Listener" THEN [ret |-> Ok(0), state |-> sock.state]
    ELSE IF in.shutdown = "Ok" THEN [ret |-> Ok(0), state |-> "shutdown"]
    ELSE [ret |-> Err(in.shutdown), state |-> sock.state]

\* The outcome of a handler: the state of the socket, the events it pushed
\* and its return value.
Outcome(state, pushed, ret) == [state |-> state, pushed |-> pushed, ret |-> ret]

\* The tail shared by the Disconnected arms: `self.disconnect()?`, then the
\* event built with self.addr(), which expects peer_addr() to succeed.
DisconnectThenEmit(sock, in, err) ==
    LET d == TcpDisconnect(sock, in)
    IN IF d.ret.res = "Err" THEN Outcome(d.state, <<>>, d.ret)
       ELSE IF ~in.addr THEN Outcome("panicked", <<>>, Unwind)
       ELSE Outcome(d.state, <<Disconnected(err)>>, Ok(1))

\* FdResource::handle_readable.
HandleReadable(sock, in) ==
    IF sock.kind = "Listener" THEN Outcome(sock.state, <<>>, Ok(0))
    ELSE IF ~in.read.ok /\ in.read.err = "WouldBlock"
    THEN Outcome(sock.state, <<>>, Err(in.read.err))
    ELSE IF ~in.read.ok \/ Len(in.read.data) = 0
    THEN DisconnectThenEmit(sock, in, "ConnectionReset")
    ELSE IF ~in.addr THEN Outcome("panicked", <<>>, Unwind)
    ELSE Outcome(sock.state, <<Received(ReadInto(in.read.data))>>, Ok(1))

\* FdResource::handle_writable.
HandleWritableTwice(sock, in) ==
    IF sock.kind = "Listener"
    THEN IF in.accept # "Ok" THEN Outcome(sock.state, <<>>, Err(in.accept))
         ELSE IF ~in.nonblock
         THEN Outcome(sock.state, <<>>, Err("set_nonblocking"))
         ELSE IF ~in.local THEN Outcome(sock.state, <<>>, Err("local_addr"))
         ELSE Outcome(sock.state, <<Connected, Connected>>, Ok(1))
    ELSE IF in.flush # "Ok" THEN DisconnectThenEmit(sock, in, in.flush)
    ELSE Outcome(sock.state, <<>>, Ok(0))
HandleWritable(sock, in) ==
    IF sock.kind = "Listener"
    THEN IF in.accept # "Ok" THEN Outcome(sock.state, <<>>, Err(in.accept))
         ELSE IF ~in.nonblock
         THEN Outcome(sock.state, <<>>, Err("set_nonblocking"))
         ELSE IF ~in.local THEN Outcome(sock.state, <<>>, Err("local_addr"))
         ELSE Outcome(sock.state, <<Connected>>, Ok(1))
    ELSE IF in.flush # "Ok" THEN DisconnectThenEmit(sock, in, in.flush)
    ELSE Outcome(sock.state, <<>>, Ok(0))

\* The socket and its events vector after a handler call with outcome out.
After(sock, op, in, out) ==
    [sock EXCEPT !.state = out.state, !.events = @ \o out.pushed,
                 !.calls = @ + 1, !.op = op, !.in = in, !.ret = out.ret]

\* Unwinding drops the Runtime: registry, IoManager and both receivers.
Panic ==
    /\ pc' = "panicked"
    /\ resources' = [i \in Ids |-> 0]
    /\ io' = {}
    /\ ready' = {}
    /\ control' = <<>>
    /\ shutdown' = 0
    /\ last' = [NoStep EXCEPT !.kind = "panic"]
    /\ iterCtl' = FALSE
    /\ iterIo' = FALSE

ReactorInit ==
    /\ pc = "poll"
    /\ resources = [i \in Ids |-> 0]
    /\ io = {}
    /\ ready = {}
    /\ control = <<>>
    /\ shutdown = 0
    /\ reactor = "alive"
    /\ controllers = [c \in Controllers |-> "none"]
    /\ sent = 0
    /\ handled = [i \in Ids |-> 0]
    /\ sentCmd = [i \in Ids |-> 0]
    /\ last = NoStep
    /\ apiErr = NoErr
    /\ iterCtl = FALSE
    /\ iterIo = FALSE
    /\ shutdownSeen = FALSE
    /\ shutdownRes = "none"
    /\ timeouts = {}

Init == ReactorInit /\ tcp = NewSocket("Stream")

\* ------------------------------------------------- ReactorApi (any thread)
SenderAlive(s) ==
    IF s = "reactor" THEN reactor = "alive" ELSE controllers[s] = "alive"

\* connect / disconnect / set_timer / send: enqueue one ControlEvent and
\* return; a SendError becomes InternalError::ControlChannelBroken.
ApiCall(s, kind, i) ==
    /\ SenderAlive(s)
    /\ LET m == [kind |-> kind, id |-> i, sender |-> s, n |-> sent + 1]
           r == ChanSend(control, m)
       IN /\ RuntimeAlive => sent < MaxEvents
          /\ control' = r.q
          /\ sent' = IF r.ok THEN sent + 1 ELSE sent
          /\ sentCmd' = IF r.ok /\ kind = "Send"
                        THEN [sentCmd EXCEPT ![i] = @ + 1] ELSE sentCmd
          /\ apiErr' = IF r.ok THEN apiErr
                        ELSE [sender |-> s, kind |-> kind,
                              after |-> shutdownRes # "none"]
    /\ UNCHANGED <<timeouts, tcp, pc, resources, io, ready, shutdown, reactor, controllers,
                   handled, last, iterCtl, iterIo, shutdownSeen, shutdownRes>>

Connect(s, i) == ApiCall(s, "Connect", i)
Disconnect(s, i) == ApiCall(s, "Disconnect", i)
SetTimer(s) == ApiCall(s, "SetTimer", "")
Send(s, i) == ApiCall(s, "Send", i)

\* ------------------------------------------------------------------ Reactor
\* Reactor::controller clones the control sender into a new Controller.
NewController(c) ==
    /\ reactor = "alive"
    /\ controllers[c] = "none"
    /\ controllers' = [controllers EXCEPT ![c] = "alive"]
    /\ UNCHANGED <<timeouts, tcp, pc, resources, io, ready, control, shutdown, reactor, sent,
                   handled, sentCmd, last, apiErr, iterCtl, iterIo, shutdownSeen,
                   shutdownRes>>

DropController(c) ==
    /\ controllers[c] = "alive"
    /\ controllers' = [controllers EXCEPT ![c] = "dropped"]
    /\ UNCHANGED <<timeouts, tcp, pc, resources, io, ready, control, shutdown, reactor, sent,
                   handled, sentCmd, last, apiErr, iterCtl, iterIo, shutdownSeen,
                   shutdownRes>>

\* The facade goes out of scope without shutdown(): its control sender and
\* the only shutdown sender are dropped.
DropReactor ==
    /\ reactor = "alive"
    /\ reactor' = "dropped"
    /\ UNCHANGED <<timeouts, tcp, pc, resources, io, ready, control, shutdown, controllers,
                   sent, handled, sentCmd, last, apiErr, iterCtl, iterIo,
                   shutdownSeen, shutdownRes>>

\* Reactor::shutdown, first half: send () on the shutdown channel (an error if
\* the receiver is gone), then block in join().
Shutdown ==
    /\ reactor = "alive"
    /\ IF RuntimeAlive
       THEN /\ shutdown' = shutdown + 1
            /\ reactor' = "joining"
            /\ UNCHANGED shutdownRes
       ELSE /\ shutdownRes' = "ShutdownChanelBroken"
            /\ reactor' = "done"
            /\ UNCHANGED shutdown
    /\ UNCHANGED <<timeouts, tcp, pc, resources, io, ready, control, controllers, sent,
                   handled, sentCmd, last, apiErr, iterCtl, iterIo, shutdownSeen>>

\* Reactor::shutdown, second half: join() returns when the runtime thread has
\* ended. run() has type `!`, so the thread ends only by a panic, which
\* join() hands back as Err and `?` turns into InternalError::ThreadError.
JoinReturn ==
    /\ reactor = "joining"
    /\ ~RuntimeAlive
    /\ shutdownRes' = "ThreadError"
    /\ reactor' = "done"
    /\ UNCHANGED <<timeouts, tcp, pc, resources, io, ready, control, shutdown, controllers,
                   sent, handled, sentCmd, last, apiErr, iterCtl, iterIo,
                   shutdownSeen>>

\* ------------------------------------------------------------------ Runtime
\* What the IoManager holds after register_resource(resource) returned regOk
\* and after unregister_resource(id) returned unregOk: a call that fails
\* leaves the monitored set as it was.
Registered(mon, h, i, regOk) == IF regOk THEN mon \cup {<<h, i>>} ELSE mon
Unregistered(mon, i, unregOk) ==
    IF unregOk THEN {p \in mon : p[2] # i} ELSE mon

\* TimeoutManager::next(now): the timeout handed to io_events, None while no
\* deadline is held.
NextTimeout(held) == IF held = {} THEN "None" ELSE "Some"

\* What the IoManager's iterator can yield after io_events returned ok: any
\* of the monitored handles after a successful wait, nothing after a failed
\* one.
ReadyAfterPoll(mon, ok) == IF ok THEN SUBSET mon ELSE {{}}

\* `if let Err(err) = self.io.io_events(..) { self.broker.handle_err(err) }`:
\* the number of Broker::handle_err calls for a poll that returned ok.
PollBrokerSilent(ok) == 0
PollBroker(ok) == IF ok THEN 0 ELSE 1

\* run(), first statement of the loop body: io_events(timeouts.next(now)).
\* No timer is ever registered, so the timeout is None and the call returns
\* only with readiness, with an error or spuriously; an error goes to the
\* Broker.
IoEvents ==
    /\ pc = "poll"
    /\ NextTimeout(timeouts) = "None"
    /\ \E ok \in BOOLEAN :
        \E S \in ReadyAfterPoll(io, ok) :
            /\ ready' = S
            /\ last' = Direct(Step("io_events", "", FALSE, 1, 0,
                                   PollBroker(ok)), ok)
    /\ pc' = NextPhase("poll")
    /\ iterCtl' = FALSE
    /\ iterIo' = FALSE
    /\ UNCHANGED <<timeouts, tcp, resources, io, control, shutdown, reactor, controllers,
                   sent, handled, sentCmd, apiErr, shutdownSeen,
                   shutdownRes>>

\* run(), one turn of `for ev in &mut self.io`.
IoReady ==
    /\ pc = "io"
    /\ ready # {}
    /\ \E ev \in ready, ioOk \in BOOLEAN, herrOk \in BOOLEAN :
        IF resources[ev[2]] = 0
        THEN Panic      \* expect("resource management inconsistency")
        ELSE LET route == ErrRoute(ioOk, herrOk)
             IN /\ ready' = ready \ {ev}
                /\ last' = Routed(Step("io_ready", ev[2], TRUE, 1,
                                       route.reserr, route.broker),
                                  ioOk, herrOk, route)
                /\ iterIo' = TRUE
                /\ UNCHANGED <<pc, resources, io, control, shutdown, iterCtl>>
    /\ UNCHANGED <<timeouts, tcp, reactor, controllers, sent, handled, sentCmd, apiErr,
                   shutdownSeen, shutdownRes>>

\* run(): the iterator is exhausted, the for loop ends.
IoDone ==
    /\ pc = "io"
    /\ ready = {}
    /\ pc' = NextPhase("io")
    /\ last' = NoStep
    /\ UNCHANGED <<timeouts, tcp, resources, io, ready, control, shutdown, reactor,
                   controllers, sent, handled, sentCmd, apiErr,
                   iterCtl, iterIo, shutdownSeen, shutdownRes>>

\* ControlEvent::Send: handle_cmd on the resource if the registry has the id.
SendOutcomeReportsAbsent(found, cmdOk, herrOk) ==
    IF found THEN [called |-> 1] @@ ErrRoute(cmdOk, herrOk)
    ELSE [called |-> 0] @@ [ErrRoute(TRUE, TRUE) EXCEPT !.broker = 1]
SendOutcome(found, cmdOk, herrOk) ==
    IF found THEN [called |-> 1] @@ ErrRoute(cmdOk, herrOk)
    ELSE [called |-> 0] @@ ErrRoute(TRUE, TRUE)

\* process_control(), one turn of its loop with try_recv returning Ok(event).
ProcessControl ==
    /\ pc = "control"
    /\ TryRecv(control, ControlSenders) = "Ok"
    /\ LET k == RecvIndex(control)
           ev == control[k]
       IN /\ control' = Without(control, k)
          /\ iterCtl' = TRUE
          /\ UNCHANGED iterIo
          /\ \/ /\ ev.kind = "Connect"
                /\ \E withOk \in BOOLEAN, regOk \in BOOLEAN, herrOk \in BOOLEAN :
                    LET found == [resources |-> resources, io |-> io]
                    IN IF ~withOk
                       THEN /\ last' = [Direct(CtlStep(ev, FALSE, 0, 0, 1),
                                                FALSE) EXCEPT !.pre = found]
                            /\ UNCHANGED <<resources, io>>
                       ELSE LET route == ErrRoute(regOk, herrOk)
                            IN /\ io' = Registered(io, FreshHandle, ev.id,
                                                   regOk)
                               /\ resources' = Insert(resources, ev.id,
                                                      FreshHandle)
                               /\ last' = [Routed(CtlStep(ev, TRUE, 1,
                                                          route.reserr,
                                                          route.broker),
                                                  regOk, herrOk, route)
                                           EXCEPT !.pre = found]
                /\ UNCHANGED handled
             \/ /\ ev.kind = "Disconnect"
                /\ \E unregOk \in BOOLEAN :
                    /\ io' = Unregistered(io, ev.id, unregOk)
                    /\ last' = Direct(CtlStep(ev, resources[ev.id] # 0, 1, 0,
                                              IF unregOk THEN 0 ELSE 1),
                                      unregOk)
                /\ resources' = [resources EXCEPT ![ev.id] = 0]
                /\ UNCHANGED handled
             \/ /\ ev.kind = "SetTimer"
                /\ last' = CtlStep(ev, FALSE, 0, 0, 0)
                /\ UNCHANGED <<resources, io, handled>>
             \/ /\ ev.kind = "Send"
                /\ \E cmdOk \in BOOLEAN, herrOk \in BOOLEAN :
                    LET out == SendOutcome(resources[ev.id] # 0, cmdOk, herrOk)
                    IN /\ last' = IF out.called = 0
                                  THEN CtlStep(ev, FALSE, 0, out.reserr,
                                               out.broker)
                                  ELSE Routed(CtlStep(ev, TRUE, out.called,
                                                      out.reserr, out.broker),
                                              cmdOk, herrOk, out)
                       /\ handled' = [handled EXCEPT ![ev.id] = @ + out.called]
                /\ UNCHANGED <<resources, io>>
    /\ UNCHANGED <<timeouts, tcp, pc, ready, shutdown, reactor, controllers, sent, sentCmd,
                   apiErr, shutdownSeen, shutdownRes>>

\* process_control(): try_recv finds the channel empty. With a sender left
\* it returns Empty and the loop breaks; with none it returns Disconnected
\* and process_control panics.
ControlEmpty ==
    /\ pc = "control"
    /\ TryRecv(control, ControlSenders) # "Ok"
    /\ IF TryRecv(control, ControlSenders) = "Disconnected"
       THEN Panic
       ELSE /\ pc' = NextPhase("control")
            /\ last' = NoStep
            /\ UNCHANGED <<resources, io, ready, control, shutdown, iterCtl,
                           iterIo>>
    /\ UNCHANGED <<timeouts, tcp, reactor, controllers, sent, handled,
                   sentCmd, apiErr, shutdownSeen, shutdownRes>>

\* process_shutdown(): Ok(()) does nothing (TODO in the source), Empty does
\* nothing, Disconnected panics; run() then starts the next iteration.
ProcessShutdown ==
    /\ pc = "shutdown"
    /\ IF shutdown > 0
       THEN /\ shutdown' = shutdown - 1
            /\ shutdownSeen' = TRUE
            /\ last' = Step("shutdown", "", TRUE, 0, 0, 0)
            /\ pc' = NextPhase("shutdown")
            /\ UNCHANGED <<resources, io, ready, control, iterCtl, iterIo>>
       ELSE IF reactor \in {"alive", "joining"}
       THEN /\ pc' = NextPhase("shutdown")
            /\ last' = Step("shutdown", "", FALSE, 0, 0, 0)
            /\ UNCHANGED <<resources, io, ready, control, shutdown, iterCtl, iterIo,
                           shutdownSeen>>
       ELSE /\ Panic
            /\ UNCHANGED shutdownSeen
    /\ UNCHANGED <<timeouts, tcp, reactor, controllers, sent, handled, sentCmd, apiErr,
                   shutdownRes>>

\* ------------------------------------- TcpSocket under readiness callbacks
\* The caller reports the stream readable: handle_readable runs against what
\* the stream returns for read, shutdown and peer_addr.
StreamReadable ==
    /\ tcp.kind = "Stream" /\ tcp.state # "panicked"
    /\ tcp.calls < MaxTcpCalls
    /\ \E rd \in ReadResults, sh \in ShutdownResults, ad \in BOOLEAN :
        LET in == [NoIn EXCEPT !.read = rd, !.shutdown = sh, !.addr = ad]
        IN tcp' = After(tcp, "handle_readable", in, HandleReadable(tcp, in))
    /\ UNCHANGED reactorVars

\* The caller reports the stream writable: handle_writable runs against what
\* the stream returns for flush, shutdown and peer_addr.
StreamWritable ==
    /\ tcp.kind = "Stream" /\ tcp.state # "panicked"
    /\ tcp.calls < MaxTcpCalls
    /\ \E fl \in FlushResults, sh \in ShutdownResults, ad \in BOOLEAN :
        LET in == [NoIn EXCEPT !.flush = fl, !.shutdown = sh, !.addr = ad]
        IN tcp' = After(tcp, "handle_writable", in, HandleWritable(tcp, in))
    /\ UNCHANGED reactorVars

\* The caller reports the listener readable.
ListenerReadable ==
    /\ tcp.kind = "Listener"
    /\ tcp.calls < MaxTcpCalls
    /\ tcp' = After(tcp, "handle_readable", NoIn, HandleReadable(tcp, NoIn))
    /\ UNCHANGED reactorVars

\* The caller reports the listener writable: handle_writable runs against
\* what accept, set_nonblocking and local_addr return.
ListenerWritable ==
    /\ tcp.kind = "Listener"
    /\ tcp.calls < MaxTcpCalls
    /\ \E ac \in AcceptResults, nb \in BOOLEAN, lo \in BOOLEAN :
        LET in == [NoIn EXCEPT !.accept = ac, !.nonblock = nb, !.local = lo]
        IN tcp' = After(tcp, "handle_writable", in, HandleWritable(tcp, in))
    /\ UNCHANGED reactorVars

TcpInit == ReactorInit /\ tcp \in {NewSocket("Stream"), NewSocket("Listener")}

TcpNext ==
    \/ StreamReadable
    \/ StreamWritable
    \/ ListenerReadable
    \/ ListenerWritable

TcpSpec == TcpInit /\ [][TcpNext]_vars

RuntimeStep == IoReady \/ IoDone \/ ProcessControl \/ ControlEmpty \/ ProcessShutdown

Next ==
    \/ \E s \in Senders, i \in Ids : Connect(s, i)
    \/ \E s \in Senders, i \in Ids : Disconnect(s, i)
    \/ \E s \in Senders : SetTimer(s)
    \/ \E s \in Senders, i \in Ids : Send(s, i)
    \/ \E c \in Controllers : NewController(c)
    \/ \E c \in Controllers : DropController(c)
    \/ DropReactor
    \/ Shutdown
    \/ JoinReturn
    \/ IoEvents
    \/ IoReady
    \/ IoDone
    \/ ProcessControl
    \/ ControlEmpty
    \/ ProcessShutdown

Spec == Init /\ [][Next]_vars

\* The runtime thread keeps running whenever it is not blocked in io_events,
\* and a joining thread is woken when the runtime thread has ended.
FairSpec == Spec /\ WF_vars(RuntimeStep) /\ WF_vars(JoinReturn)

\* ------------------------------------------------------------------ claims
CtlKinds == {"Connect", "Disconnect", "SetTimer", "Send"}
\* the Runtime has just processed a control event
AfterControlEvent == last.kind \in CtlKinds
\* this step of the Runtime processes a control event
ProcessesEvent == last'.kind \in CtlKinds /\ last'.n # last.n
Pending(k) == \E j \in DOMAIN control : control[j].n = k
Registry == {i \in Ids : resources[i] # 0}

\* C1: after the Runtime has processed a control event, an id is in the
\* registry iff the IoManager monitors a handle for it, and it monitors
\* exactly one handle for it.
C1_RegistryMatchesIo ==
    AfterControlEvent =>
        \A i \in Ids : /\ (i \in Registry <=> Monitored(i) # {})
                       /\ Cardinality(Monitored(i)) <= 1

\* C2: after the Runtime has processed Disconnect(r), neither the registry
\* nor the IoManager holds r.
C2_DisconnectRemoves ==
    last.kind = "Disconnect" =>
        (last.id \notin Registry /\ Monitored(last.id) = {})

\* C3: once the Runtime has received the shutdown signal, every resource is
\* unregistered and dropped and the thread has left the event loop.
C3_ShutdownTerminates ==
    shutdownSeen =>
        /\ pc \notin {"poll", "io", "control", "shutdown"}
        /\ Registry = {}
        /\ io = {}

\* C4: every control event enqueued while the Runtime is alive is eventually
\* dequeued and processed (or the Runtime has ended).
C4_EventuallyProcessed ==
    \A k \in 1..MaxEvents : Pending(k) ~> ~Pending(k)

SendsPending(i) ==
    Cardinality({j \in DOMAIN control :
                    control[j].kind = "Send" /\ control[j].id = i})
NoSendLost ==
    /\ \E i \in Ids : sentCmd[i] > 0
    /\ \A c \in Controllers : controllers[c] # "alive"
    /\ \A j \in DOMAIN control : control[j].kind = "Send"
    /\ \A i \in Ids : /\ handled[i] + SendsPending(i) = sentCmd[i]
                      /\ sentCmd[i] > 0 => i \in Registry
C6_AllSendsHandledAtShutdown ==
    (reactor = "joining" /\ NoSendLost)
        ~> (shutdownRes # "none" /\ \A i \in Ids : handled[i] = sentCmd[i])

\* C7: after shutdown() has returned, a ReactorApi call enqueues nothing and
\* returns ControlChannelBroken.
C7_DeadReactorRejects ==
    [][shutdownRes # "none" =>
         /\ control' = control
         /\ sent' = sent
         /\ (apiErr' # apiErr => apiErr'.after)]_vars
\* shutdown() sent its signal and joined the thread, and a surviving
\* Controller then got ControlChannelBroken
C7_Witness ==
    /\ shutdownRes = "ThreadError"
    /\ apiErr.after
    /\ apiErr.sender \in Controllers
    /\ apiErr.kind \in {"Connect", "Send"}

\* C8: while io_ready calls of a loop iteration are still to be made, no
\* control event has been processed in that iteration.
C8_IoBeforeControl == (pc = "io" /\ ready # {}) => ~iterCtl
\* an iteration that called io_ready and then processed a control event
C8_Witness == iterIo /\ iterCtl /\ AfterControlEvent

\* C9: processing Send(id, cmd) for an id the registry does not have calls no
\* handle_cmd, no handle_err and no Broker, leaves the registry and the
\* IoManager as they were, and the loop goes on with the rest of the queue.
C9_SendAbsentIsNoop ==
    [][(ProcessesEvent /\ last'.kind = "Send" /\ ~last'.found) =>
         /\ last'.called = 0 /\ last'.reserr = 0 /\ last'.broker = 0
         /\ handled' = handled
         /\ resources' = resources /\ io' = io
         /\ pc' = "control"
         /\ control' = Tail(control)]_vars
\* a Send for an unregistered id was dropped with another event still queued
C9_Witness ==
    /\ last.kind = "Send" /\ ~last.found
    /\ control # <<>>

\* C10: processing Disconnect(id) for an id the registry does not have
\* reports nothing to the Broker and leaves registry and IoManager alone.
C10_StaleDisconnectSucceeds ==
    [][(ProcessesEvent /\ last'.kind = "Disconnect" /\ ~last'.found) =>
         /\ last'.broker = 0
         /\ resources' = resources /\ io' = io]_vars

\* C11: every io_ready or handle_cmd call the Runtime makes that returns an
\* error is followed by exactly one Resource::handle_err call with that error,
\* and by exactly one Broker::handle_err call (with the error handle_err
\* returned) iff handle_err itself returned an error; a call that returns Ok
\* is followed by neither.
ResourceCall == last.kind = "io_ready" \/ (last.kind = "Send" /\ last.found)
C11_ErrorRouting ==
    ResourceCall =>
        /\ last.called = 1
        /\ last.res = "Ok" => (last.reserr = 0 /\ last.broker = 0)
        /\ last.res = "Err" =>
               /\ last.reserr = 1 /\ last.herrArg = "call"
               /\ last.broker = (IF last.herr = "Err" THEN 1 ELSE 0)
               /\ last.broker = 1 => last.brokerArg = "handle_err"
\* io_ready failed and so did the resource's handle_err.
C11_Witness ==
    last.kind = "io_ready" /\ last.res = "Err" /\ last.herr = "Err"

\* C12: when io_events returns an error, the Broker is handed that error
\* exactly once, the failed poll yields no readiness notification (so no
\* io_ready call comes of it), registry, IoManager and channels are left as
\* they were, and the loop goes on to process_control as after any poll.
PollFailed == last.kind = "io_events" /\ last.res = "Err"
C13_IoReadyOncePerNotification ==
    [][(pc = "io" /\ ready' # ready) =>
          \E ev \in ready :
              /\ ready' = ready \ {ev}
              /\ last'.kind = "io_ready" /\ last'.called = 1
              /\ last'.id = ev[2]
              /\ resources[ev[2]] # 0 /\ ev \in io]_vars

\* C14: after a set_timer control event is processed the TimeoutManager
\* holds a deadline, so that the next poll timeout is bounded by it (and the
\* timer can fire once the deadline has passed).
C14_SetTimerHoldsDeadline ==
    last.kind = "SetTimer" =>
        (timeouts # {} /\ NextTimeout(timeouts) # "None")

\* C15: processing Connect for a fresh id r (neither registered nor
\* monitored) and immediately afterwards Disconnect(r) leaves the registry
\* and the IoManager's monitored set equal to what they were before the
\* Connect.
FreshBefore(st) ==
    /\ st.pre.resources[st.id] = 0
    /\ \A p \in st.pre.io : p[2] # st.id
C15_ConnectDisconnectRoundTrip ==
    [][(/\ last.kind = "Connect" /\ FreshBefore(last)
        /\ ProcessesEvent
        /\ last'.kind = "Disconnect" /\ last'.id = last.id) =>
          (resources' = last.pre.resources /\ io' = last.pre.io)]_vars

\* C16: when Connect constructs a resource whose id the registry already
\* holds, the registry afterwards maps the id to the newly constructed
\* resource (the prior one is replaced), every other entry is as before, and
\* the number of entries has not grown.
ReConnected ==
    last.kind = "Connect" /\ last.found /\ last.pre.resources[last.id] # 0
C16_ConnectReplaces ==
    ReConnected =>
        /\ resources[last.id] # 0
        /\ resources[last.id] \notin
               {last.pre.resources[i] : i \in Ids} \cup
               {p[1] : p \in last.pre.io}
        /\ \A j \in Ids \ {last.id} : resources[j] = last.pre.resources[j]
        /\ Cardinality(Registry) =
               Cardinality({i \in Ids : last.pre.resources[i] # 0})
C16_Witness == ReConnected /\ last.res = "Ok"

\* C17: once the Reactor facade and every Controller have been dropped
\* (shutdown was never called), the Runtime thread eventually terminates.
AllDropped ==
    reactor = "dropped" /\ \A c \in Controllers : controllers[c] # "alive"
C17_DroppedTerminates == AllDropped ~> ~RuntimeAlive

\* A step in which the given handler ran on the stream, and the events that
\* call appended to the vector.
StreamCalled(op) ==
    tcp.kind = "Stream" /\ tcp'.calls = tcp.calls + 1 /\ tcp'.op = op
Pushed == SubSeq(tcp'.events, Len(tcp.events) + 1, Len(tcp'.events))

\* C18: on readable readiness of a stream, handle_readable emits exactly one
\* event unless the read would block (then none): Disconnected with reason
\* ConnectionError, after shutting the socket down, for a zero-length read or
\* a read error other than would-block, and Received for a successful
\* non-zero read; the Disconnected event is emitted whether or not the
\* shutdown itself succeeded.
C18_ReadableEmitsOne ==
    [][StreamCalled("handle_readable") =>
          LET rd == tcp'.in.read
          IN IF ~rd.ok /\ rd.err = "WouldBlock" THEN Pushed = <<>>
             ELSE /\ Len(Pushed) = 1
                  /\ IF rd.ok /\ Len(rd.data) > 0
                     THEN Pushed[1].type = "Received"
                     ELSE /\ Pushed[1].type = "Disconnected"
                          /\ Pushed[1].reason = "ConnectionError"
                          /\ tcp'.in.shutdown = "Ok" =>
                                 tcp'.state = "shutdown"]_vars

\* C19: for every successful read of n > 0 bytes the payload of the Received
\* event emitted for it is exactly the n bytes read: its length is n, not
\* READ_BUFFER_SIZE.
C19_ReceivedPayload ==
    [][(/\ StreamCalled("handle_readable")
        /\ tcp'.in.read.ok /\ Len(tcp'.in.read.data) > 0
        /\ Pushed # <<>>) =>
          /\ Pushed[1].type = "Received"
          /\ Pushed[1].data = tcp'.in.read.data
          /\ PayloadLen(Pushed[1]) = Len(tcp'.in.read.data)]_vars

\* C20: on writable readiness of a stream, a failing flush shuts the socket
\* down and emits exactly one Disconnected event with reason ConnectionError
\* carrying the flush error; a successful flush emits nothing and returns
\* Ok(0).
C20_WritableFlush ==
    [][StreamCalled("handle_writable") =>
          IF tcp'.in.flush # "Ok"
          THEN /\ Len(Pushed) = 1
               /\ Pushed[1].type = "Disconnected"
               /\ Pushed[1].reason = "ConnectionError"
               /\ Pushed[1].err = tcp'.in.flush
               /\ tcp'.state = "shutdown"
          ELSE Pushed = <<>> /\ tcp'.ret = Ok(0)]_vars

\* A step in which the given handler ran on the listener.
ListenerCalled(op) ==
    tcp.kind = "Listener" /\ tcp'.calls = tcp.calls + 1 /\ tcp'.op = op
OneInbound ==
    /\ Len(Pushed) = 1
    /\ Pushed[1].type = "Connected" /\ Pushed[1].direction = "Inbound"

\* C21 as stated: a listener appends nothing on readable readiness and
\* handle_readable returns Ok(0); on writable readiness, whenever accept has
\* handed it a connection, it appends exactly one Connected event whose
\* direction is Inbound.
C21_ListenerEvents ==
    [][/\ ListenerCalled("handle_readable") =>
             (Pushed = <<>> /\ tcp'.ret = Ok(0))
       /\ (ListenerCalled("handle_writable") /\ tcp'.in.accept = "Ok") =>
             OneInbound]_vars

\* C21, amended: a listener appends nothing on readable readiness and
\* handle_readable returns Ok(0); on writable readiness it appends exactly
\* one Connected event with direction Inbound, and returns Ok(1), when
\* accept, set_nonblocking and local_addr all succeed, and appends nothing
\* and returns the error when any of them fails.
C21_ListenerEventsAmended ==
    [][/\ ListenerCalled("handle_readable") =>
             (Pushed = <<>> /\ tcp'.ret = Ok(0))
       /\ ListenerCalled("handle_writable") =>
             IF tcp'.in.accept = "Ok" /\ tcp'.in.nonblock /\ tcp'.in.local
             THEN OneInbound /\ tcp'.ret = Ok(1)
             ELSE Pushed = <<>> /\ tcp'.ret.res = "Err"]_vars
\* The listener was called twice and only the writable call that accepted
\* a connection appended an event.
C21_Witness ==
    /\ tcp.kind = "Listener" /\ tcp.calls = 2
    /\ tcp.op = "handle_writable" /\ tcp.ret = Ok(1)
    /\ Len(tcp.events) = 1 /\ tcp.events[1].direction = "Inbound"

\* C22: in every reachable state each readiness notification the IoManager's
\* iterator is about to yield names an id that is a key of the registry, so
\* the lookup in run() never panics.
C22_YieldedIdsRegistered == \A ev \in ready : resources[ev[2]] # 0

\* C23: while the Runtime is running, process_control never finds the control
\* channel disconnected, whatever Controllers and Reactor handles have been
\* dropped: the Runtime's own control_send keeps it connected, so the panic
\* branch of process_control is never taken.
C23_ControlNeverDisconnected ==
    RuntimeAlive =>
        /\ ControlSenders >= 1
        /\ pc = "control" => TryRecv(control, ControlSenders) # "Disconnected"
\* The Runtime is in process_control with an empty channel after the facade
\* and every Controller were dropped.
C23_Witness ==
    /\ pc = "control" /\ control = <<>>
    /\ reactor = "dropped"
    /\ \A c \in Controllers : controllers[c] = "dropped"

\* C24: when R::with fails while Connect is processed, the Broker is handed
\* exactly that one error, nothing is registered with the IoManager or
\* inserted into the registry (both are as the step found them), and the
\* control events still queued are processed next, oldest first.
FactoryFailed == last.kind = "Connect" /\ ~last.found
C24_FactoryFailure ==
    [][FactoryFailed =>
          /\ last.broker = 1 /\ last.brokerArg = "call"
          /\ last.called = 0 /\ last.reserr = 0
          /\ resources = last.pre.resources /\ io = last.pre.io
          /\ RuntimeAlive /\ pc = "control"
          /\ (control # <<>> /\ last' # last) =>
                (ProcessesEvent /\ last'.n = control[1].n)]_vars
\* R::with failed while another control event is still queued.
C24_Witness == FactoryFailed /\ control # <<>>
====
